---- MODULE Spec2Model ----
(***************************************************************************)
(* Model of the retrieval engine of sundai (app/services/rag.py) and of    *)
(* the callers that share its process-wide store handle `db`.              *)
(*                                                                         *)
(* Text is modelled as a sequence of lines; a line is a record             *)
(* [k |-> kind, w |-> sequence of words].  The store is the SQLite file    *)
(* (committed tables meta / fts / vec), one open transaction per           *)
(* connection (pend) and the file's write lock (wlock).                    *)
(***************************************************************************)
EXTENDS Integers, Sequences, FiniteSets, TLC

\* ------------------------------------------------------------------ bounds
\* row ids the server scenario / the script scenario may allocate
MaxId == 4
MaxApiId == 2
\* longest url list a script passes to embed_notion_pages
MaxBatch == 2
\* row ids the end-to-end scenario may allocate
MaxDemoId == 3
\* rows of a store handed to hybrid_search directly
MaxRankRows == 3
\* keys of a score batch handed to the normalizers; lines of a document handed
\* to chunk_document
MaxBatchIds == 3
MaxLines == 4

\* ------------------------------------------------------- program constants
EmbDim == 384

\* --------------------------------------------------------------- text model
H1(ws) == [k |-> "h1", w |-> ws]
H2(ws) == [k |-> "h2", w |-> ws]
T(ws) == [k |-> "text", w |-> ws]
Blank == [k |-> "blank", w |-> <<>>]
FromLine(sid) == [k |-> "from", w |-> <<sid>>]

NoSourceId == "<None>"

SetMax(S) == IF S = {} THEN 0 ELSE CHOOSE y \in S : \A z \in S : z <= y

IsBlankText(text) == \A i \in 1..Len(text) : text[i].k = "blank"

\* str.strip() on a block of lines: leading and trailing blank lines go
strip(text) ==
    IF IsBlankText(text) THEN <<>>
    ELSE LET lo == CHOOSE i \in 1..Len(text) :
                     text[i].k # "blank" /\ \A j \in 1..(i-1) : text[j].k = "blank"
             hi == CHOOSE i \in 1..Len(text) :
                     text[i].k # "blank" /\ \A j \in (i+1)..Len(text) : text[j].k = "blank"
         IN SubSeq(text, lo, hi)

\* re.split(r'(?=^##\s+)', content): a new piece starts before every ## line
SplitStarts(text) == {1} \cup {i \in 1..Len(text) : text[i].k = "h2"}

SplitSections(text) ==
    LET starts == SplitStarts(text)
        EndOf(s) == IF \E t \in starts : t > s
                    THEN (CHOOSE t \in starts : t > s /\ \A u \in starts : u > s => t <= u) - 1
                    ELSE Len(text)
        RECURSIVE Build(_)
        Build(from) ==
            IF from > Len(text) THEN <<>>
            ELSE <<SubSeq(text, from, EndOf(from))>> \o Build(EndOf(from) + 1)
    IN IF Len(text) = 0 THEN << <<>> >> ELSE Build(1)

MetaEntry(key, val) == [kt |-> "str", k |-> key, v |-> val]

\* only the pieces that start with a ## line become chunks
chunk_document_HeadersOnly(content, source_id) ==
    LET titled == {i \in 1..Len(content) : content[i].k = "h1"}
        doc_title == IF titled # {}
                     THEN content[CHOOSE i \in titled : \A j \in titled : i <= j].w
                     ELSE <<source_id>>
        sections == SplitSections(content)
        ChunkOf(section) ==
            LET hs == {i \in 1..Len(section) : section[i].k = "h2"}
                section_title == IF hs # {}
                                 THEN section[CHOOSE i \in hs : \A j \in hs : i <= j].w
                                 ELSE <<"Introduction">>
            IN [content |-> <<FromLine(source_id), H1(doc_title), Blank>> \o section,
                metadata |-> [some |-> TRUE,
                              map |-> {MetaEntry("source_id", <<source_id>>),
                                       MetaEntry("section_title", section_title)}]]
        RECURSIVE Loop(_)
        Loop(i) ==
            IF i > Len(sections) THEN <<>>
            ELSE LET section == strip(sections[i])
                 IN IF section = <<>> \/ section[1].k # "h2" THEN Loop(i + 1)
                    ELSE <<ChunkOf(section)>> \o Loop(i + 1)
        chunks == Loop(1)
    IN IF chunks # <<>> THEN chunks
       ELSE <<[content |-> content,
               metadata |-> [some |-> TRUE,
                             map |-> {MetaEntry("source_id", <<source_id>>)}]]>>

\* chunk_document(content, source_id)
chunk_document(content, source_id) ==
    LET titled == {i \in 1..Len(content) : content[i].k = "h1"}
        doc_title == IF titled # {}
                     THEN content[CHOOSE i \in titled : \A j \in titled : i <= j].w
                     ELSE <<source_id>>
        sections == SplitSections(content)
        ChunkOf(section) ==
            LET hs == {i \in 1..Len(section) : section[i].k = "h2"}
                section_title == IF hs # {}
                                 THEN section[CHOOSE i \in hs : \A j \in hs : i <= j].w
                                 ELSE <<"Introduction">>
            IN [content |-> <<FromLine(source_id), H1(doc_title), Blank>> \o section,
                metadata |-> [some |-> TRUE,
                              map |-> {MetaEntry("source_id", <<source_id>>),
                                       MetaEntry("section_title", section_title)}]]
        RECURSIVE Loop(_)
        Loop(i) ==
            IF i > Len(sections) THEN <<>>
            ELSE LET section == strip(sections[i])
                 IN IF section = <<>> THEN Loop(i + 1)
                    ELSE <<ChunkOf(section)>> \o Loop(i + 1)
        chunks == Loop(1)
    IN IF chunks # <<>> THEN chunks
       ELSE <<[content |-> content,
               metadata |-> [some |-> TRUE,
                             map |-> {MetaEntry("source_id", <<source_id>>)}]]>>

\* ------------------------------------------------------------ environment
\* the threads that call into rag.py, and the connection `db` of their process
\*   main, listener : the API server process (api/server.py): its event-loop thread
\*                    and the NotionListener thread it starts
\*   cli            : a run of app/main.py, which embeds the page it is configured with
\*   test           : a script that drives rag.py directly (tests/test_integration.py)
\*   demo           : a script that ingests one document into a fresh store and queries it
Handles == {"h1", "h2", "h3", "h4"}
Callers == {"main", "listener", "cli", "test", "demo"}
ServerCallers == {"main", "listener", "cli"}
HandleOf(c) == IF c = "cli" THEN "h2" ELSE IF c = "test" THEN "h3"
               ELSE IF c = "demo" THEN "h4" ELSE "h1"
\* rag.py is imported, and `db` opened, by the main thread of each process;
\* sqlite3.connect() keeps check_same_thread at its default
OwnerThread(h) == IF h = "h1" THEN "main" ELSE IF h = "h2" THEN "cli"
                  ELSE IF h = "h4" THEN "demo" ELSE "test"

Urls == {"u1", "u2"}
Doc1 == <<T(<<"hello", "world">>)>>
Doc2 == <<H2(<<"skills">>), T(<<"react", "node">>), Blank,
          H2(<<"availability">>), T(<<"open", "for", "freelance", "work">>)>>
\* "# Linda\n## Skills\nReact, Node.js\n## Availability\nOpen for freelance work";
\* the words of a line are written as the tokens the keyword index makes of them
LindaUrl == "doc1"
LindaDoc == <<H1(<<"linda">>), H2(<<"skills">>), T(<<"react", "node", "js">>),
              H2(<<"availability">>), T(<<"open", "for", "freelance", "work">>)>>
AllUrls == Urls \cup {LindaUrl}
DocOf(u) == IF u = "u1" THEN Doc1 ELSE IF u = LindaUrl THEN LindaDoc ELSE Doc2

\* what NotionClient().get_page_as_text(url) can do
Pages(u) == {[kind |-> "error", text |-> <<>>],
             [kind |-> "text", text |-> <<>>],
             [kind |-> "text", text |-> <<Blank, Blank>>],
             [kind |-> "text", text |-> DocOf(u)]}

UrlLists == UNION {[1..n -> Urls] : n \in 0..MaxBatch}
ListenerUrl == "u2"
\* app/main.py embeds [notion_page_url]; a script may pass any list
BatchInputs(c) == IF c = "test" THEN UrlLists
                  ELSE IF c = "demo" THEN {<<LindaUrl>>} ELSE {<<ListenerUrl>>}

\* generate_embedding / generate_embeddings_batch: one EmbDim-vector per text
embed(text) == [dim |-> EmbDim, of |-> text]

NoMeta == [some |-> FALSE, map |-> {}]
EmptyMap == [some |-> TRUE, map |-> {}]
StrKeyMap == [some |-> TRUE, map |-> {MetaEntry("tag", <<"a">>)}]
IntKeyMap == [some |-> TRUE, map |-> {[kt |-> "int", k |-> "1", v |-> <<"a">>]}]

NoteText == <<T(<<"freelance", "note">>)>>
NoArgs == [source_type |-> "", content |-> <<>>, embedding |-> embed(<<>>),
           source_id |-> NoSourceId, metadata |-> NoMeta]
\* calls of save_embedding a script makes: every shape of metadata, a source_id
\* given or omitted, and a vector that is not EmbDim long
SaveInputs ==
    {[source_type |-> "note", content |-> NoteText, embedding |-> embed(NoteText),
      source_id |-> "n1", metadata |-> md] : md \in {EmptyMap, StrKeyMap, IntKeyMap}}
    \cup {[source_type |-> "note", content |-> NoteText, embedding |-> embed(NoteText),
           source_id |-> NoSourceId, metadata |-> NoMeta],
          [source_type |-> "note", content |-> NoteText,
           embedding |-> [dim |-> 2, of |-> NoteText],
           source_id |-> "n1", metadata |-> NoMeta]}

\* ------------------------------------------------------------------ state
VARIABLES
    meta, fts, vec,   \* the committed tables embeddings_meta, embeddings_fts, vec_embeddings
    pend,             \* per connection: the rows of its open transaction
    wlock,            \* the connection holding the file's write lock
    cs,               \* per caller: where it is in embed_notion_pages / save_embedding
    hist,             \* per url: ingestions that saved every chunk; urls written partly
    rsl,              \* what the last retrieve_context call gave its caller
    call,             \* a function of rag.py called on its own: its arguments and result
    lsn,              \* the NotionListener of the process, its state file and the page
    cyc               \* the TopicCycler of the process and its state file

storeVars == <<meta, fts, vec, pend, wlock>>
objs == <<lsn, cyc>>
others == <<rsl, call, lsn, cyc>>
vars == <<meta, fts, vec, pend, wlock, cs, hist, rsl, call, lsn, cyc>>

NoTable == <<>>
NoTx == [meta |-> NoTable, fts |-> NoTable, vec |-> NoTable]
NoLock == "none"
NoText == [sentinel |-> FALSE, entries |-> <<>>]
NoOutcome == [kind |-> "none", exc |-> "", text |-> NoText, results |-> <<>>]
NoResult == [in |-> [query |-> [ok |-> TRUE, words |-> <<>>], top_k |-> 0,
                     embedder_ok |-> TRUE, dist |-> <<>>],
             out |-> NoOutcome]

NoOut == [done |-> FALSE]
NoCall == [fn |-> "none", in |-> <<>>, out |-> NoOut]

\* no listener and no cycler were constructed
NoListener == [built |-> FALSE]
NoCycler == [built |-> FALSE]
NoObjects == lsn = NoListener /\ cyc = NoCycler

Idle == [pc |-> "idle", mode |-> "none", urls |-> <<>>, i |-> 0, total |-> 0,
         log |-> <<>>, url |-> "", page |-> "none", chunks |-> <<>>, embs |-> <<>>,
         j |-> 0, rowid |-> 0, ret |-> 0, raised |-> FALSE, exc |-> "",
         added |-> 0, args |-> NoArgs]

Init ==
    /\ meta = NoTable /\ fts = NoTable /\ vec = NoTable
    /\ pend = [h \in Handles |-> NoTx]
    /\ wlock = NoLock
    /\ cs = [c \in Callers |-> Idle]
    /\ hist = [ok |-> [u \in AllUrls |-> 0], part |-> {}]
    /\ rsl = NoResult
    /\ call = NoCall
    /\ NoObjects

\* what a statement run on a connection reads: the file plus its open transaction
Tables(m, f, v, tx) == [meta |-> m @@ tx.meta, fts |-> f @@ tx.fts, vec |-> v @@ tx.vec]
View(h) == Tables(meta, fts, vec, pend[h])

\* ---------------------------------------------------------- JSON column
\* A dict is a set of entries [kt, k, v]: the type of the key, its text, the value.
\* JSON text is the set of its "key": value members; its keys have no type.
\* json.dumps(metadata): every key is written as a string
json_dumps(m) == {<<e.k, e.v>> : e \in m}
\* json.loads(text): every key is read as a str
json_loads(text) == {[kt |-> "str", k |-> p[1], v |-> p[2]] : p \in text}
\* line 182: json.dumps(metadata) if metadata else None
MetaColumn(metadata) ==
    IF metadata.some /\ metadata.map # {}
    THEN [null |-> FALSE, text |-> json_dumps(metadata.map)]
    ELSE [null |-> TRUE, text |-> {}]

\* ------------------------------------------------- embed_notion_page(s)
\* except Exception: return 0     (rag.py, embed_notion_page)
OnFetchError(s) == [s EXCEPT !.pc = "ret", !.ret = 0, !.raised = FALSE]
\* the embedder's exception leaves embed_notion_page
OnEmbedError_Propagates(s) == [s EXCEPT !.pc = "ret", !.raised = TRUE]
OnEmbedError(s) == [s EXCEPT !.pc = "ret", !.ret = 0, !.raised = FALSE]
OnSaveError(s) == [s EXCEPT !.pc = "ret", !.ret = 0, !.raised = FALSE]

NewCall(s, u) == [s EXCEPT !.pc = "fetch", !.url = u, !.page = "none", !.chunks = <<>>,
                           !.embs = <<>>, !.j = 0, !.rowid = 0, !.ret = 0,
                           !.raised = FALSE, !.exc = "", !.added = 0]

\* embed_notion_pages(db, urls): total_chunks = 0, then the for loop
StartBatch(c) ==
    /\ c \in {"cli", "test", "demo"}
    /\ cs[c].pc = "idle"
    /\ \E urls \in BatchInputs(c) :
         cs' = [cs EXCEPT ![c] =
                  IF urls = <<>>
                  THEN [Idle EXCEPT !.pc = "done", !.mode = "batch"]
                  ELSE NewCall([Idle EXCEPT !.mode = "batch", !.urls = urls, !.i = 1],
                               urls[1])]
    /\ UNCHANGED <<storeVars, hist, others>>

\* NotionListener.handle_page_update: embed_notion_page(db, self.notion_page_url)
HandlePageUpdate(c) ==
    /\ c \in {"main", "listener"}
    /\ cs[c].pc = "idle"
    /\ cs' = [cs EXCEPT ![c] = NewCall([Idle EXCEPT !.mode = "page"], ListenerUrl)]
    /\ UNCHANGED <<storeVars, hist, others>>

\* the page text goes to chunk_document without the empty check
AfterFetch_NoBlankCheck(s, p) ==
    IF p.kind = "error" THEN OnFetchError([s EXCEPT !.page = "error", !.exc = "FetchError"])
    ELSE [s EXCEPT !.page = IF strip(p.text) = <<>> THEN "blank" ELSE "doc",
                   !.pc = "embed", !.chunks = chunk_document(p.text, s.url)]

\* lines 216-224: fetch, the empty check, chunk_document
AfterFetch(s, p) ==
    IF p.kind = "error" THEN OnFetchError([s EXCEPT !.page = "error", !.exc = "FetchError"])
    ELSE IF p.text = <<>> \/ strip(p.text) = <<>>
         THEN [s EXCEPT !.page = "blank", !.pc = "ret", !.ret = 0]
         ELSE [s EXCEPT !.page = "doc", !.pc = "embed",
                        !.chunks = chunk_document(p.text, s.url)]

FetchPage(c) ==
    /\ cs[c].pc = "fetch"
    /\ \E p \in Pages(cs[c].url) : cs' = [cs EXCEPT ![c] = AfterFetch(cs[c], p)]
    /\ UNCHANGED <<storeVars, hist, others>>

\* lines 227-228: texts, generate_embeddings_batch(texts)
AfterEmbed(s, ok) ==
    IF ok
    THEN [s EXCEPT !.pc = "ins_meta", !.j = 1,
                   !.embs = [n \in 1..Len(s.chunks) |-> embed(s.chunks[n].content)]]
    ELSE OnEmbedError([s EXCEPT !.exc = "EmbeddingError"])

EmbedBatch(c) ==
    /\ cs[c].pc = "embed"
    /\ \E ok \in BOOLEAN : cs' = [cs EXCEPT ![c] = AfterEmbed(cs[c], ok)]
    /\ UNCHANGED <<storeVars, hist, others>>

\* ------------------------------------------------------- save_embedding
StartSave(c) ==
    /\ c = "test"
    /\ cs[c].pc = "idle"
    /\ \E a \in SaveInputs :
         cs' = [cs EXCEPT ![c] = [Idle EXCEPT !.pc = "ins_meta", !.mode = "save", !.args = a]]
    /\ UNCHANGED <<storeVars, hist, others>>

\* the arguments of the save_embedding call in progress
SaveArgs(s) ==
    IF s.mode = "save" THEN s.args
    ELSE [source_type |-> "notion_page", content |-> s.chunks[s.j].content,
          embedding |-> s.embs[s.j], source_id |-> s.url,
          metadata |-> s.chunks[s.j].metadata]

\* an exception leaving save_embedding: to the caller, or to the except clause
SaveRaised(s, e) ==
    IF s.mode = "save" THEN [s EXCEPT !.pc = "save_raised", !.raised = TRUE, !.exc = e]
    ELSE OnSaveError([s EXCEPT !.exc = e])

IdCap(c) == IF c = "test" THEN MaxApiId ELSE IF c = "demo" THEN MaxDemoId ELSE MaxId

NextRowId(h) == SetMax(DOMAIN View(h).meta) + 1

MetaRow(a) == [source_type |-> a.source_type, source_id |-> a.source_id,
               content |-> a.content, metadata |-> MetaColumn(a.metadata)]
FtsRow(a) == [content |-> a.content, source_type |-> a.source_type,
              source_id |-> a.source_id]

\* the table after INSERT INTO embeddings_meta
InsertRow(table, id, row) == table @@ (id :> row)

\* conn.cursor() in a thread that did not open the connection
CursorRefused(c) ==
    /\ cs[c].pc = "ins_meta"
    /\ c # OwnerThread(HandleOf(c))
    /\ cs' = [cs EXCEPT ![c] = SaveRaised(cs[c], "ProgrammingError")]
    /\ UNCHANGED <<storeVars, hist, others>>

\* INSERT INTO embeddings_meta while another connection holds the write lock
InsertMetaLocked(c) ==
    /\ cs[c].pc = "ins_meta"
    /\ c = OwnerThread(HandleOf(c))
    /\ wlock \notin {NoLock, HandleOf(c)}
    /\ cs' = [cs EXCEPT ![c] = SaveRaised(cs[c], "OperationalError")]
    /\ UNCHANGED <<storeVars, hist, others>>

\* lines 173-186: INSERT INTO embeddings_meta, the embeddings_ai trigger, lastrowid
InsertMeta(c) ==
    LET h == HandleOf(c)
        a == SaveArgs(cs[c])
        id == NextRowId(h)
    IN /\ cs[c].pc = "ins_meta"
       /\ c = OwnerThread(h)
       /\ wlock \in {NoLock, h}
       /\ id <= IdCap(c)
       /\ pend' = [pend EXCEPT ![h].meta = InsertRow(@, id, MetaRow(a)),
                               ![h].fts = InsertRow(@, id, FtsRow(a))]
       /\ wlock' = h
       /\ cs' = [cs EXCEPT ![c].pc = "ins_vec", ![c].rowid = id]
       /\ UNCHANGED <<meta, fts, vec, hist, others>>

\* lines 189-195: INSERT INTO vec_embeddings (rowid, embedding)
InsertVec(c) ==
    LET h == HandleOf(c)
        a == SaveArgs(cs[c])
    IN /\ cs[c].pc = "ins_vec"
       /\ \E ioerr \in BOOLEAN :
            IF a.embedding.dim # EmbDim \/ ioerr
            THEN /\ cs' = [cs EXCEPT ![c] = SaveRaised(cs[c], "OperationalError")]
                 /\ hist' = [hist EXCEPT !.part = @ \cup {a.source_id}]
                 /\ UNCHANGED <<storeVars, others>>
            ELSE /\ pend' = [pend EXCEPT ![h].vec = InsertRow(@, cs[c].rowid, a.embedding)]
                 /\ cs' = [cs EXCEPT ![c].pc = "commit"]
                 /\ UNCHANGED <<meta, fts, vec, wlock, hist, others>>

\* lines 231-241: the next iteration of the for loop, or return len(chunks)
AfterSave(s) ==
    IF s.mode = "save" THEN [s EXCEPT !.pc = "saved", !.ret = s.rowid]
    ELSE IF s.j < Len(s.chunks)
         THEN [s EXCEPT !.pc = "ins_meta", !.j = s.j + 1, !.added = s.added + 1]
         ELSE [s EXCEPT !.pc = "ret", !.ret = Len(s.chunks), !.added = s.added + 1]

\* a commit that replaces the rows stored earlier for the same source_id
StoreAfterCommit_Replacing(m, f, v, tx) ==
    LET sids == {tx.meta[id].source_id : id \in DOMAIN tx.meta}
        keep == {id \in DOMAIN m : m[id].source_id \notin sids}
        Only(t) == [id \in (DOMAIN t \cap keep) |-> t[id]]
    IN [meta |-> Only(m) @@ tx.meta, fts |-> Only(f) @@ tx.fts, vec |-> Only(v) @@ tx.vec]

\* the file after COMMIT of transaction tx: its rows are added, nothing else changes
StoreAfterCommit(m, f, v, tx) ==
    [meta |-> m @@ tx.meta, fts |-> f @@ tx.fts, vec |-> v @@ tx.vec]

\* line 197: conn.commit() makes the whole open transaction of the connection durable
Commit(c) ==
    LET h == HandleOf(c)
        after == StoreAfterCommit(meta, fts, vec, pend[h])
    IN /\ cs[c].pc = "commit"
       /\ meta' = after.meta
       /\ fts' = after.fts
       /\ vec' = after.vec
       /\ pend' = [pend EXCEPT ![h] = NoTx]
       /\ wlock' = NoLock
       /\ cs' = [cs EXCEPT ![c] = AfterSave(cs[c])]
       /\ UNCHANGED <<hist, others>>

\* embed_notion_page has returned to its caller: its locals are gone, the caller
\* holds the value returned and, in embed_notion_pages, the running total
Returned(s, pc) ==
    [Idle EXCEPT !.pc = pc, !.mode = s.mode, !.urls = s.urls, !.i = s.i,
                 !.total = s.total, !.log = s.log, !.ret = s.ret, !.raised = s.raised]

\* the loop ends at the first url that gave no chunk
AfterPage_StopsOnFailure(s) ==
    IF s.mode = "page" THEN Returned(s, "page_done")
    ELSE IF s.raised THEN Returned(s, "batch_raised")
    ELSE LET t == [s EXCEPT !.total = s.total + s.ret,
                            !.log = Append(s.log, [url |-> s.url, n |-> s.ret, exc |-> s.exc])]
         IN IF s.i < Len(s.urls) /\ s.ret > 0
            THEN NewCall([t EXCEPT !.i = s.i + 1], s.urls[s.i + 1])
            ELSE Returned(t, "done")

\* lines 262-267: total_chunks += chunks, next url or return total_chunks
AfterPage(s) ==
    IF s.mode = "page" THEN Returned(s, "page_done")
    ELSE IF s.raised THEN Returned(s, "batch_raised")
    ELSE LET t == [s EXCEPT !.total = s.total + s.ret,
                            !.log = Append(s.log, [url |-> s.url, n |-> s.ret, exc |-> s.exc])]
         IN IF s.i < Len(s.urls)
            THEN NewCall([t EXCEPT !.i = s.i + 1], s.urls[s.i + 1])
            ELSE Returned(t, "done")

ReturnPage(c) ==
    /\ cs[c].pc = "ret"
    /\ cs' = [cs EXCEPT ![c] = AfterPage(cs[c])]
    /\ hist' = IF cs[c].added = Len(cs[c].chunks) /\ cs[c].added > 0
               THEN [hist EXCEPT !.ok[cs[c].url] = @ + 1]
               ELSE IF cs[c].added > 0 THEN [hist EXCEPT !.part = @ \cup {cs[c].url}]
               ELSE hist
    /\ UNCHANGED <<storeVars, others>>

Finish(c) ==
    /\ cs[c].pc \in {"done", "batch_raised", "page_done", "saved", "save_raised"}
    /\ cs' = [cs EXCEPT ![c] = Idle]
    /\ UNCHANGED <<storeVars, hist, others>>


\* ------------------------------------------------------------- retrieval
\* Scores are fixed-point: Scale stands for 1.0; weights are in tenths.
Scale == 12
DefaultWeight == 5
DefaultTopK == 10
SearchLimit == 100
Dists == {0, 1, 2}

\* the unicode61 tokens of a column value
Tokenize(str) == IF str = "notion_page" THEN <<"notion", "page">>
                 ELSE IF str = NoSourceId THEN <<>> ELSE <<str>>

RECURSIVE WordsOf(_)
WordsOf(text) ==
    IF text = <<>> THEN <<>>
    ELSE (IF Head(text).k = "from" THEN <<"from">> \o Tokenize(Head(text).w[1])
          ELSE Head(text).w) \o WordsOf(Tail(text))

FtsTokens(row) == WordsOf(row.content) \o Tokenize(row.source_type) \o Tokenize(row.source_id)

\* a query string: whether FTS5 can parse it, and the terms it asks for
Queries == {[ok |-> TRUE, words |-> <<"freelance">>],
            [ok |-> TRUE, words |-> <<"react", "node">>],
            [ok |-> TRUE, words |-> <<"kubernetes">>],
            [ok |-> FALSE, words |-> <<"freelance">>]}

Matches(row, query) ==
    \A n \in 1..Len(query.words) :
        \E t \in 1..Len(FtsTokens(row)) : FtsTokens(row)[t] = query.words[n]

\* bm25(embeddings_fts): negative, lower for more occurrences of the query terms
Bm25(row, query) ==
    0 - Cardinality({t \in 1..Len(FtsTokens(row)) :
                       \E n \in 1..Len(query.words) : FtsTokens(row)[t] = query.words[n]})

NoScores == <<>>

\* LIMIT n without ORDER BY on an FTS5 match: the first n rows in rowid order
FirstByRowid(S, n) == {x \in S : Cardinality({y \in S : y < x}) < n}
\* k = n ORDER BY distance: the n nearest vectors, the lower rowid first on a tie
Nearest(S, dist, n) ==
    {x \in S : Cardinality({y \in S : dist[y] < dist[x] \/ (dist[y] = dist[x] /\ y < x)}) < n}

\* the OperationalError of a query FTS5 cannot parse is not caught
bm25_search_Uncaught(v, query, limit) ==
    IF ~query.ok THEN [raised |-> TRUE, map |-> NoScores]
    ELSE LET hits == {id \in DOMAIN v.fts : Matches(v.fts[id], query)}
             kept == FirstByRowid(hits, limit)
         IN [raised |-> FALSE, map |-> [id \in kept |-> Bm25(v.fts[id], query)]]

\* bm25_search(conn, query, limit): rows come in rowid order, LIMIT cuts them;
\* sqlite3.OperationalError (a query FTS5 cannot parse) gives {}
bm25_search(v, query, limit) ==
    IF ~query.ok THEN [raised |-> FALSE, map |-> NoScores]
    ELSE LET hits == {id \in DOMAIN v.fts : Matches(v.fts[id], query)}
             kept == FirstByRowid(hits, limit)
         IN [raised |-> FALSE, map |-> [id \in kept |-> Bm25(v.fts[id], query)]]

\* semantic_search(conn, query_embedding, limit): the limit nearest vectors
semantic_search(v, dist, limit) ==
    LET ids == DOMAIN v.vec
        kept == Nearest(ids, dist, limit)
    IN [id \in kept |-> dist[id]]

Values(m) == {m[id] : id \in DOMAIN m}
SetMin(S) == CHOOSE y \in S : \A z \in S : y <= z

\* the raw scores are scaled without being inverted
normalize_bm25_scores_NotInverted(bm25_scores) ==
    IF DOMAIN bm25_scores = {} THEN NoScores
    ELSE LET min_score == SetMin(Values(bm25_scores))
             max_score == SetMax(Values(bm25_scores) \cup {min_score})
         IN IF min_score = max_score THEN [id \in DOMAIN bm25_scores |-> Scale]
            ELSE [id \in DOMAIN bm25_scores |->
                    ((bm25_scores[id] - min_score) * Scale) \div (max_score - min_score)]

normalize_bm25_scores(bm25_scores) ==
    IF DOMAIN bm25_scores = {} THEN NoScores
    ELSE LET min_score == SetMin(Values(bm25_scores))
             max_score == SetMax(Values(bm25_scores) \cup {min_score})
         IN IF min_score = max_score THEN [id \in DOMAIN bm25_scores |-> Scale]
            ELSE [id \in DOMAIN bm25_scores |->
                    ((max_score - bm25_scores[id]) * Scale) \div (max_score - min_score)]

\* the similarity 1 - dist/2 is returned as it is, not normalized over the batch
normalize_distances_Unscaled(distances) ==
    [id \in DOMAIN distances |-> ((2 - distances[id]) * Scale) \div 2]

\* similarities 1 - dist/2 are kept in halves (2 - dist): the quotient is the same
normalize_distances(distances) ==
    IF DOMAIN distances = {} THEN NoScores
    ELSE LET similarities == [id \in DOMAIN distances |-> 2 - distances[id]]
             min_sim == SetMin(Values(similarities))
             max_sim == SetMax(Values(similarities))
         IN IF min_sim = max_sim THEN [id \in DOMAIN similarities |-> Scale]
            ELSE [id \in DOMAIN similarities |->
                    ((similarities[id] - min_sim) * Scale) \div (max_sim - min_sim)]

\* the metadata column handed back as it is stored, NULL included
MetaRecord_NoDefault(row) ==
    [source_type |-> row.source_type, source_id |-> row.source_id,
     content |-> row.content,
     metadata |-> IF row.metadata.null THEN NoMeta
                  ELSE [some |-> TRUE, map |-> json_loads(row.metadata.text)]]

\* one row as get_metadata_by_ids returns it
MetaRecord(row) ==
    [source_type |-> row.source_type, source_id |-> row.source_id,
     content |-> row.content,
     metadata |-> IF row.metadata.null THEN EmptyMap
                  ELSE [some |-> TRUE, map |-> json_loads(row.metadata.text)]]

get_metadata_by_ids(v, ids) ==
    [id \in (ids \cap DOMAIN v.meta) |-> MetaRecord(v.meta[id])]

\* set(bm25_normalized.keys()) | set(semantic_normalized.keys()) and its iteration
\* order.  A CPython set of ints is a hash table probed at id mod its size; the
\* table has SetMinSize slots while the two sets hold at most SetMinFill keys
\* together and at least twice as many afterwards.  Ids here stay within one
\* table of the larger size, so no two keys of the union share a slot.
SetMinSize == 8
SetMinFill == 4
SetTableSize(A, B) ==
    IF Cardinality(A) + Cardinality(B) <= SetMinFill THEN SetMinSize ELSE 2 * SetMinSize

\* the union keeps the ids of one search only
all_ids_Intersection(A, B) == A \cap B

all_ids(A, B) == A \cup B

RECURSIVE SetOrder(_, _)
SetOrder(S, size) ==
    IF S = {} THEN <<>>
    ELSE LET first == CHOOSE x \in S : \A y \in S : x % size <= y % size
         IN <<first>> \o SetOrder(S \ {first}, size)

\* the weights are applied to the wrong scores
final_score_Swapped(keyword_weight, semantic_weight, bm25_score, semantic_score) ==
    (semantic_weight * bm25_score) + (keyword_weight * semantic_score)

\* line 445
final_score(keyword_weight, semantic_weight, bm25_score, semantic_score) ==
    (keyword_weight * bm25_score) + (semantic_weight * semantic_score)

\* the sort puts the lowest score first
SortByFinalScore_Ascending(l) ==
    LET before(a, b) == l[a].final_score < l[b].final_score
                        \/ (l[a].final_score = l[b].final_score /\ a < b)
        place(a) == 1 + Cardinality({b \in 1..Len(l) : before(b, a)})
    IN [p \in 1..Len(l) |-> l[CHOOSE a \in 1..Len(l) : place(a) = p]]

\* list.sort(key=final_score, reverse=True): stable
SortByFinalScore(l) ==
    LET before(a, b) == l[a].final_score > l[b].final_score
                        \/ (l[a].final_score = l[b].final_score /\ a < b)
        place(a) == 1 + Cardinality({b \in 1..Len(l) : before(b, a)})
    IN [p \in 1..Len(l) |-> l[CHOOSE a \in 1..Len(l) : place(a) = p]]

Get(m, id) == IF id \in DOMAIN m THEN m[id] ELSE 0

NoRecord == [source_type |-> "", source_id |-> "", content |-> <<>>, metadata |-> EmptyMap]

\* the slice keeps the tail of the list
Truncate_Tail(l, top_k) ==
    SubSeq(l, IF top_k < Len(l) THEN Len(l) - top_k + 1 ELSE 1, Len(l))

\* scored_results[:top_k] for top_k >= 0
Truncate(l, top_k) == SubSeq(l, 1, IF top_k < Len(l) THEN top_k ELSE Len(l))

hybrid_search(v, query, dist, keyword_weight, semantic_weight, top_k) ==
    LET bm25_raw == bm25_search(v, query, SearchLimit)
        bm25_normalized == normalize_bm25_scores(bm25_raw.map)
        semantic_raw == semantic_search(v, dist, SearchLimit)
        semantic_normalized == normalize_distances(semantic_raw)
        ids == all_ids(DOMAIN bm25_normalized, DOMAIN semantic_normalized)
        metadata == get_metadata_by_ids(v, ids)
        order == SetOrder(ids, SetTableSize(DOMAIN bm25_normalized,
                                            DOMAIN semantic_normalized))
        Scored(id) ==
            LET m == IF id \in DOMAIN metadata THEN metadata[id] ELSE NoRecord
            IN [id |-> id, content |-> m.content, source_type |-> m.source_type,
                source_id |-> m.source_id, metadata |-> m.metadata,
                bm25_score |-> Get(bm25_normalized, id),
                semantic_score |-> Get(semantic_normalized, id),
                final_score |-> final_score(keyword_weight, semantic_weight,
                                            Get(bm25_normalized, id),
                                            Get(semantic_normalized, id))]
        scored_results == [n \in 1..Len(order) |-> Scored(order[n])]
    IN IF bm25_raw.raised THEN [raised |-> TRUE, results |-> <<>>]
       ELSE IF ids = {} THEN [raised |-> FALSE, results |-> <<>>]
       ELSE [raised |-> FALSE, results |-> Truncate(SortByFinalScore(scored_results), top_k)]

\* an empty result list is formatted as an empty list of entries
format_context_for_prompt_NoSentinel(results) ==
    [sentinel |-> FALSE,
     entries |-> [n \in 1..Len(results) |->
                    [rank |-> n, source_type |-> results[n].source_type,
                     score |-> results[n].final_score,
                     content |-> results[n].content]]]

\* format_context_for_prompt(results) with the default budget, for contents that
\* fit it: the sentinel, or one entry per result, numbered from 1
format_context_for_prompt(results) ==
    IF results = <<>> THEN [sentinel |-> TRUE, entries |-> <<>>]
    ELSE [sentinel |-> FALSE,
          entries |-> [n \in 1..Len(results) |->
                         [rank |-> n, source_type |-> results[n].source_type,
                          score |-> results[n].final_score,
                          content |-> results[n].content]]]

\* the embedder's failure is swallowed and the query answered without vectors
retrieve_context_Swallows(v, query, top_k, embedder_ok, dist) ==
    LET found == hybrid_search(IF embedder_ok THEN v ELSE [v EXCEPT !.vec = NoTable],
                               query, dist, DefaultWeight, DefaultWeight, top_k)
    IN [kind |-> "returned", exc |-> "",
        text |-> format_context_for_prompt(found.results), results |-> found.results]

\* retrieve_context(conn, query, top_k); embedder_ok: generate_embedding returns
retrieve_context(v, query, top_k, embedder_ok, dist) ==
    IF ~embedder_ok
    THEN [kind |-> "raised", exc |-> "EmbeddingError",
          text |-> NoText, results |-> <<>>]
    ELSE LET found == hybrid_search(v, query, dist, DefaultWeight, DefaultWeight, top_k)
         IN IF found.raised
            THEN [kind |-> "raised", exc |-> "OperationalError",
                  text |-> NoText, results |-> <<>>]
            ELSE [kind |-> "returned", exc |-> "",
                  text |-> format_context_for_prompt(found.results),
                  results |-> found.results]

TopKs == {0, 1, DefaultTopK}

\* the cosine distance of every stored vector to the query's embedding; there is
\* no query embedding, and no distance, when generate_embedding raised
QueryDistances(v, embedder_ok) ==
    IF embedder_ok THEN [DOMAIN v.vec -> Dists] ELSE {[id \in DOMAIN v.vec |-> 0]}

RetrieveContext(c) ==
    /\ cs[c].pc = "idle"
    /\ c = OwnerThread(HandleOf(c))
    /\ \E query \in Queries, top_k \in TopKs, embedder_ok \in BOOLEAN :
       \E dist \in QueryDistances(View(HandleOf(c)), embedder_ok) :
         rsl' = [in |-> [query |-> query, top_k |-> top_k,
                         embedder_ok |-> embedder_ok, dist |-> dist],
                 out |-> retrieve_context(View(HandleOf(c)), query, top_k,
                                          embedder_ok, dist)]
    /\ cs' = [cs EXCEPT ![c].pc = "retrieved"]
    /\ UNCHANGED <<storeVars, hist, call, objs>>

FinishRetrieve(c) ==
    /\ cs[c].pc = "retrieved"
    /\ cs' = [cs EXCEPT ![c] = Idle]
    /\ rsl' = NoResult
    /\ UNCHANGED <<storeVars, hist, call, objs>>

\* the server, its listener thread and a CLI run, all on the same store file
Next ==
    \E c \in ServerCallers :
        \/ StartBatch(c) \/ HandlePageUpdate(c) \/ FetchPage(c) \/ EmbedBatch(c)
        \/ CursorRefused(c) \/ InsertMetaLocked(c) \/ InsertMeta(c)
        \/ InsertVec(c) \/ Commit(c) \/ ReturnPage(c) \/ Finish(c)

Spec == Init /\ [][Next]_vars

\* one script calling the functions of rag.py one after the other
NextApi ==
    \/ StartBatch("test") \/ StartSave("test") \/ FetchPage("test") \/ EmbedBatch("test")
    \/ InsertMeta("test") \/ InsertVec("test") \/ Commit("test")
    \/ ReturnPage("test") \/ Finish("test")
    \/ RetrieveContext("test") \/ FinishRetrieve("test")

SpecApi == Init /\ [][NextApi]_vars


\* ------------------------------------------------ the end-to-end scenario
\* a script ingests the Linda document into a fresh store, then queries it
NextLinda ==
    \/ StartBatch("demo") \/ FetchPage("demo") \/ EmbedBatch("demo")
    \/ InsertMeta("demo") \/ InsertVec("demo") \/ Commit("demo")
    \/ ReturnPage("demo") \/ Finish("demo")
    \/ RetrieveContext("demo") \/ FinishRetrieve("demo")

SpecLinda == Init /\ [][NextLinda]_vars

\* ------------------------------------------- functions called on their own
Quiescent ==
    /\ pend = [h \in Handles |-> NoTx]
    /\ wlock = NoLock
    /\ cs = [c \in Callers |-> Idle]
    /\ hist = [ok |-> [u \in AllUrls |-> 0], part |-> {}]
    /\ rsl = NoResult

EmptyStore == /\ meta = NoTable /\ fts = NoTable /\ vec = NoTable

CallPending(fn) == call.fn = fn /\ ~call.out.done
CallDone(fn) == call.fn = fn /\ call.out.done
Out(value) == [done |-> TRUE, value |-> value]

\* chunk_document(content, source_id) on every document of at most MaxLines lines
ChunkLines == {H1(<<"linda">>), H2(<<"skills">>), H2(<<"availability">>),
               T(<<"freelance", "work">>), Blank}
ChunkDocs == UNION {[1..n -> ChunkLines] : n \in 0..MaxLines} \cup {LindaDoc}

InitChunk ==
    /\ EmptyStore /\ Quiescent /\ NoObjects
    /\ \E content \in ChunkDocs :
         call = [fn |-> "chunk_document",
                 in |-> [content |-> content, source_id |-> LindaUrl], out |-> NoOut]

ChunkDocument ==
    /\ CallPending("chunk_document")
    /\ call' = [call EXCEPT !.out = Out(chunk_document(call.in.content, call.in.source_id))]
    /\ UNCHANGED <<storeVars, cs, hist, rsl, objs>>

SpecChunk == InitChunk /\ [][ChunkDocument]_vars

\* normalize_bm25_scores / normalize_distances on every batch of at most
\* MaxBatchIds keys
RawBm25 == {0 - 3, 0 - 2, 0 - 1, 0}
Batches(Raw) == UNION {[S -> Raw] : S \in SUBSET (1..MaxBatchIds)}

InitNormalize ==
    /\ EmptyStore /\ Quiescent /\ NoObjects
    /\ \E bm25_scores \in Batches(RawBm25), distances \in Batches(Dists) :
         call = [fn |-> "normalize",
                 in |-> [bm25_scores |-> bm25_scores, distances |-> distances],
                 out |-> NoOut]

Normalize ==
    /\ CallPending("normalize")
    /\ call' = [call EXCEPT !.out = Out([bm25 |-> normalize_bm25_scores(call.in.bm25_scores),
                                         semantic |-> normalize_distances(call.in.distances)])]
    /\ UNCHANGED <<storeVars, cs, hist, rsl, objs>>

SpecNormalize == InitNormalize /\ [][Normalize]_vars

\* hybrid_search(conn, query, query_embedding, keyword_weight, semantic_weight, top_k)
\* on a committed store, with every weight and top_k
OtherText == <<T(<<"react", "node">>)>>
RankTexts == {NoteText, OtherText}
RankArgs(text) == [source_type |-> "note", content |-> text, embedding |-> embed(text),
                   source_id |-> "n1", metadata |-> NoMeta]

\* rows 1..Len(texts), each saved whole
DenseStore(texts) ==
    [meta |-> [id \in 1..Len(texts) |-> MetaRow(RankArgs(texts[id]))],
     fts |-> [id \in 1..Len(texts) |-> FtsRow(RankArgs(texts[id]))],
     vec |-> [id \in 1..Len(texts) |-> embed(texts[id])]]

\* rows 1..SetMinSize of which only the first and the last were saved whole: the
\* vector insert of the rows between them raised, and a later commit kept them
SparseStore(whole, partial) ==
    LET text(id) == IF id \in {1, SetMinSize} THEN whole ELSE partial
    IN [meta |-> [id \in 1..SetMinSize |-> MetaRow(RankArgs(text(id)))],
        fts |-> [id \in 1..SetMinSize |-> FtsRow(RankArgs(text(id)))],
        vec |-> [id \in {1, SetMinSize} |-> embed(whole)]]

RankStores ==
    {DenseStore(texts) : texts \in UNION {[1..n -> RankTexts] : n \in 0..MaxRankRows}}
    \cup {SparseStore(whole, partial) : whole \in RankTexts, partial \in RankTexts}

\* weights in tenths: 0.0, 0.5, 1.0
Weights == {0, DefaultWeight, 2 * DefaultWeight}

InitRank ==
    /\ Quiescent /\ NoObjects
    /\ \E st \in RankStores :
         /\ meta = st.meta /\ fts = st.fts /\ vec = st.vec
         /\ \E query \in Queries, dist \in [DOMAIN st.vec -> Dists],
               keyword_weight \in Weights, semantic_weight \in Weights, top_k \in TopKs :
              call = [fn |-> "hybrid_search",
                      in |-> [query |-> query, dist |-> dist,
                              keyword_weight |-> keyword_weight,
                              semantic_weight |-> semantic_weight, top_k |-> top_k],
                      out |-> NoOut]

Committed == Tables(meta, fts, vec, NoTx)

HybridSearch ==
    /\ CallPending("hybrid_search")
    /\ call' = [call EXCEPT !.out =
                  Out(hybrid_search(Committed, call.in.query, call.in.dist,
                                    call.in.keyword_weight, call.in.semantic_weight,
                                    call.in.top_k))]
    /\ UNCHANGED <<storeVars, cs, hist, rsl, objs>>

SpecRank == InitRank /\ [][HybridSearch]_vars

\* bm25_search(conn, query, limit) on a committed store whose rows match the
\* query once, several times or not at all, with windows smaller than the store
MaxWindowRows == 3
MaxLimit == 2
OnceText == <<T(<<"freelance">>)>>
TwiceText == <<T(<<"freelance", "work", "freelance">>)>>
WindowTexts == {OnceText, TwiceText, OtherText}
Limits == (1..MaxLimit) \cup {SearchLimit}

InitWindow ==
    /\ Quiescent /\ NoObjects
    /\ \E texts \in UNION {[1..n -> WindowTexts] : n \in 0..MaxWindowRows} :
         LET st == DenseStore(texts)
         IN /\ meta = st.meta /\ fts = st.fts /\ vec = st.vec
            /\ \E query \in Queries, limit \in Limits :
                 call = [fn |-> "bm25_search",
                         in |-> [query |-> query, limit |-> limit],
                         out |-> NoOut]

Bm25Search ==
    /\ CallPending("bm25_search")
    /\ call' = [call EXCEPT !.out =
                  Out(bm25_search(Committed, call.in.query, call.in.limit))]
    /\ UNCHANGED <<storeVars, cs, hist, rsl, objs>>

SpecWindow == InitWindow /\ [][Bm25Search]_vars

\* ------------------------------------- format_context_for_prompt, in characters
\* A result is described by what the lengths depend on: its source_type and the
\* number of characters of its content. The text returned is the sentinel, or the
\* entries joined by "\n"; an entry is "{header}\n{content}\n".
DefaultMaxChars == 4000
SentinelLen == 26
Overhead == 10
MinAvailable == 100
EllipsisLen == 3
HeaderFixedLen == 18
MaxResults == 10

Digits(i) == IF i < 10 THEN 1 ELSE IF i < 100 THEN 2 ELSE 3
TypeLen(source_type) == IF source_type = "notion_page" THEN 11 ELSE 4
\* len(f"[{i}. {source_type}] (score: {final_score:.2f})") for a score below 10
HeaderLen(i, source_type) == HeaderFixedLen + Digits(i) + TypeLen(source_type)

\* len(entry): header, "\n", content, "\n"
EntryLen(e) == e.header + 1 + e.content + 1

\* the content is cut to the whole of max_chars
format_with_budget_CutsAtMax(results, max_chars) ==
    LET RECURSIVE Loop(_, _)
        Loop(i, chars_used) ==
            IF i > Len(results) THEN <<>>
            ELSE LET header == HeaderLen(i, results[i].source_type)
                     available == max_chars - chars_used - header - Overhead
                     cut == results[i].content > available
                     entry == [rank |-> i, header |-> header, cut |-> cut,
                               content |-> IF cut THEN (max_chars - EllipsisLen) + EllipsisLen
                                           ELSE results[i].content]
                 IN IF available <= MinAvailable THEN <<>>
                    ELSE <<entry>> \o Loop(i + 1, chars_used + EntryLen(entry))
    IN IF results = <<>> THEN [sentinel |-> TRUE, entries |-> <<>>]
       ELSE [sentinel |-> FALSE, entries |-> Loop(1, 0)]

\* format_context_for_prompt(results, max_chars): lines 466-488
format_with_budget(results, max_chars) ==
    LET RECURSIVE Loop(_, _)
        Loop(i, chars_used) ==
            IF i > Len(results) THEN <<>>
            ELSE LET header == HeaderLen(i, results[i].source_type)
                     available == max_chars - chars_used - header - Overhead
                     cut == results[i].content > available
                     entry == [rank |-> i, header |-> header, cut |-> cut,
                               content |-> IF cut THEN (available - EllipsisLen) + EllipsisLen
                                           ELSE results[i].content]
                 IN IF available <= MinAvailable THEN <<>>
                    ELSE <<entry>> \o Loop(i + 1, chars_used + EntryLen(entry))
    IN IF results = <<>> THEN [sentinel |-> TRUE, entries |-> <<>>]
       ELSE [sentinel |-> FALSE, entries |-> Loop(1, 0)]

RECURSIVE SumEntries(_)
SumEntries(entries) ==
    IF entries = <<>> THEN 0 ELSE EntryLen(Head(entries)) + SumEntries(Tail(entries))
\* len(text): the sentinel, or "\n".join(context_parts)
TextLen(text) ==
    IF text.sentinel THEN SentinelLen
    ELSE SumEntries(text.entries)
         + (IF text.entries = <<>> THEN 0 ELSE Len(text.entries) - 1)

\* format_context_for_prompt(results, max_chars) on every list of at most MaxResults
\* results of one source_type, each with a short or a long content
SourceTypes == {"note", "notion_page"}
ContentLens == {5, 5000}
MaxCharsSet == {0, 133, 134, 140, 500, DefaultMaxChars}
ResultLists ==
    UNION {[1..n -> [source_type : {st}, content : ContentLens]] :
             n \in 0..MaxResults, st \in SourceTypes}

InitFormat ==
    /\ EmptyStore /\ Quiescent /\ NoObjects
    /\ \E results \in ResultLists, max_chars \in MaxCharsSet :
         call = [fn |-> "format_context_for_prompt",
                 in |-> [results |-> results, max_chars |-> max_chars], out |-> NoOut]

FormatContext ==
    /\ CallPending("format_context_for_prompt")
    /\ call' = [call EXCEPT !.out = Out(format_with_budget(call.in.results,
                                                           call.in.max_chars))]
    /\ UNCHANGED <<storeVars, cs, hist, rsl, objs>>

SpecFormat == InitFormat /\ [][FormatContext]_vars

\* ---------------------------------------------------------- NotionListener
\* The page is a text that edits replace; ver counts the edits. The state file holds
\* last_content_hash, or nothing. A check is made by the polling loop (thread
\* "listener") or by POST /api/listener/check-now (thread "main") on the one
\* listener_instance of the server.
MaxEdits == 2
MaxChanges == 3
PageTexts == {"p1", "p2"}
CheckThreads == {"main", "listener"}
NoHash == <<>>
\* hashlib.md5(content.encode()).hexdigest(): distinct texts, distinct digests
get_content_hash(text) == <<"md5", text>>
Hashes == {get_content_hash(text) : text \in PageTexts}

NoCheck == [pc |-> "idle", ver |-> 0, hash |-> NoHash, ret |-> FALSE, first |-> FALSE,
            failed |-> FALSE]

\* the state file is not read
load_state_Ignored(file, readable) == NoHash

\* _load_state: the hash in the state file, None without a readable file
load_state(file, readable) == IF readable THEN file ELSE NoHash

\* _save_state: the file holds the hash, unless the write raised
save_state(file, hash, written) == IF written THEN hash ELSE file

\* NotionListener(url): __init__ and _load_state, the page and the state file being
\* whatever earlier runs and edits left
InitListener ==
    /\ EmptyStore /\ Quiescent /\ call = NoCall /\ cyc = NoCycler
    /\ \E text \in PageTexts, file \in Hashes \cup {NoHash}, readable \in BOOLEAN :
         lsn = [built |-> TRUE,
                page |-> [ver |-> 0, text |-> text],
                file |-> file,
                persisted |-> [hash |-> file, readable |-> readable],
                last_content_hash |-> load_state(file, readable),
                change_count |-> 0,
                started |-> FALSE,
                reported |-> <<>>,
                th |-> [t \in CheckThreads |-> NoCheck]]

\* the page is edited in Notion
EditPage ==
    /\ lsn.built
    /\ lsn.page.ver < MaxEdits
    /\ \E text \in PageTexts \ {lsn.page.text} :
         lsn' = [lsn EXCEPT !.page = [ver |-> lsn.page.ver + 1, text |-> text]]
    /\ UNCHANGED <<storeVars, cs, hist, rsl, call, cyc>>

\* check_for_changes, lines 92-100: get_page_as_text and the hash of what it
\* returned, or the except clause: return False
CheckFetch(t) ==
    /\ lsn.built
    /\ lsn.th[t].pc = "idle"
    /\ \E ok \in BOOLEAN :
         lsn' = [lsn EXCEPT
                   !.started = TRUE,
                   !.th[t] = IF ok
                             THEN [NoCheck EXCEPT !.pc = "fetched", !.ver = lsn.page.ver,
                                                  !.hash = get_content_hash(lsn.page.text),
                                                  !.first = ~lsn.started]
                             ELSE [NoCheck EXCEPT !.pc = "returned", !.failed = TRUE,
                                                  !.first = ~lsn.started]]
    /\ UNCHANGED <<storeVars, cs, hist, rsl, call, cyc>>

\* lines 102-109 and 117-120: the baseline is saved, or the hashes are compared
CheckCompare(t) ==
    /\ lsn.built
    /\ lsn.th[t].pc = "fetched"
    /\ \E written \in BOOLEAN :
         lsn' = IF lsn.last_content_hash = NoHash
                THEN [lsn EXCEPT !.last_content_hash = lsn.th[t].hash,
                                 !.file = save_state(lsn.file, lsn.th[t].hash, written),
                                 !.th[t].pc = "returned", !.th[t].ret = FALSE]
                ELSE IF lsn.th[t].hash # lsn.last_content_hash
                     THEN [lsn EXCEPT !.th[t].pc = "changed"]
                     ELSE [lsn EXCEPT !.th[t].pc = "returned", !.th[t].ret = FALSE]
    /\ UNCHANGED <<storeVars, cs, hist, rsl, call, cyc>>

\* lines 110-116: change_count += 1, the new hash, _save_state, return True
CheckRecord(t) ==
    /\ lsn.built
    /\ lsn.th[t].pc = "changed"
    /\ lsn.change_count < MaxChanges
    /\ \E written \in BOOLEAN :
         lsn' = [lsn EXCEPT !.change_count = @ + 1,
                            !.last_content_hash = lsn.th[t].hash,
                            !.file = save_state(lsn.file, lsn.th[t].hash, written),
                            !.reported = Append(@, lsn.th[t].ver),
                            !.th[t].pc = "returned", !.th[t].ret = TRUE]
    /\ UNCHANGED <<storeVars, cs, hist, rsl, call, cyc>>

\* the caller has the answer; handle_page_update, when it runs, leaves the
\* listener's fields alone
FinishCheck(t) ==
    /\ lsn.built
    /\ lsn.th[t].pc = "returned"
    /\ lsn' = [lsn EXCEPT !.th[t] = NoCheck]
    /\ UNCHANGED <<storeVars, cs, hist, rsl, call, cyc>>

\* the server: the polling thread and the check-now endpoint on one listener
NextListener ==
    \/ EditPage
    \/ \E t \in CheckThreads :
         CheckFetch(t) \/ CheckCompare(t) \/ CheckRecord(t) \/ FinishCheck(t)

SpecListener == InitListener /\ [][NextListener]_vars

\* a process whose only thread polls (notion_listener.main, the integration test)
NextPoll ==
    \/ EditPage
    \/ CheckFetch("listener") \/ CheckCompare("listener")
    \/ CheckRecord("listener") \/ FinishCheck("listener")

SpecPoll == InitListener /\ [][NextPoll]_vars

\* ----------------------------------------------------------- topic cycler
\* TopicCycler (topic_cycler.py): an index into a fixed list of topics, kept in
\* a JSON state file. cyc.file is the state file, cyc.run the calls of
\* get_next_topic made one after the other since the object was built or
\* reset (the last Len(Topics) of them), cyc.saved the index that the last
\* get_next_topic or reset wrote to the file (<<>> if it wrote none).
MaxFileIndex == 7
Topics == <<"stealth", "ai", "llm", "prompt", "unicorn">>
FileIndexes == (0 - MaxFileIndex)..MaxFileIndex
NoFile == [kind |-> "none", index |-> 0]
BadFile == [kind |-> "bad", index |-> 0]
IndexFile(i) == [kind |-> "int", index |-> i]
StateFiles == {NoFile, BadFile} \cup {IndexFile(i) : i \in FileIndexes}
SaveOutcomes == {"written", "refused", "truncated"}

\* the index read from the file is used as it is
TopicCycler_load_state_NoModulo(file) ==
    IF file.kind = "int" THEN file.index ELSE 0

\* _load_state: index % len(self.topics); 0 without a file or when the file
\* cannot be parsed
TopicCycler_load_state(file) ==
    IF file.kind = "int" THEN file.index % Len(Topics) ELSE 0

\* _save_state: open(state_file, 'w') and json.dump, every exception swallowed:
\* open() may be refused (the file keeps its content) or the write may fail
\* after open() emptied the file
TopicCycler_save_state(file, index, outcome) ==
    IF outcome = "written" THEN IndexFile(index)
    ELSE IF outcome = "refused" THEN file
    ELSE IF file.kind = "none" THEN file ELSE BadFile

Saved(index, outcome) == IF outcome = "written" THEN <<index>> ELSE <<>>

\* get_next_topic: (self.current_index + 1) % len(self.topics)
next_index(index) == (index + 1) % Len(Topics)

NewCycler(file, saved) ==
    [built |-> TRUE, file |-> file, current_index |-> TopicCycler_load_state(file),
     run |-> <<>>, saved |-> saved, op |-> "init", ret |-> ""]

InitCycler ==
    /\ EmptyStore /\ Quiescent /\ call = NoCall /\ lsn = NoListener
    /\ \E file \in StateFiles : cyc = NewCycler(file, <<>>)

\* a new TopicCycler on the same state file (the process starts again)
TopicCyclerInit ==
    /\ cyc.built
    /\ cyc.op # "init"
    /\ cyc' = NewCycler(cyc.file, cyc.saved)
    /\ UNCHANGED <<storeVars, cs, hist, rsl, call, lsn>>

LastCalls(run) == IF Len(run) > Len(Topics) THEN Tail(run) ELSE run

GetNextTopic ==
    /\ cyc.built
    /\ \E outcome \in SaveOutcomes :
         LET topic == Topics[cyc.current_index + 1]
             index == next_index(cyc.current_index)
         IN cyc' = [cyc EXCEPT
                      !.current_index = index,
                      !.file = TopicCycler_save_state(cyc.file, index, outcome),
                      !.saved = Saved(index, outcome),
                      !.run = LastCalls(Append(cyc.run,
                                [before |-> cyc.current_index, topic |-> topic])),
                      !.op = "get_next_topic", !.ret = topic]
    /\ UNCHANGED <<storeVars, cs, hist, rsl, call, lsn>>

GetCurrentTopic ==
    /\ cyc.built
    /\ cyc.op # "get_current_topic"
    /\ cyc' = [cyc EXCEPT !.op = "get_current_topic",
                          !.ret = Topics[cyc.current_index + 1]]
    /\ UNCHANGED <<storeVars, cs, hist, rsl, call, lsn>>

Reset ==
    /\ cyc.built
    /\ cyc.op # "reset"
    /\ \E outcome \in SaveOutcomes :
         cyc' = [cyc EXCEPT !.current_index = 0,
                            !.file = TopicCycler_save_state(cyc.file, 0, outcome),
                            !.saved = Saved(0, outcome),
                            !.run = <<>>, !.op = "reset", !.ret = ""]
    /\ UNCHANGED <<storeVars, cs, hist, rsl, call, lsn>>

NextCycler == TopicCyclerInit \/ GetNextTopic \/ GetCurrentTopic \/ Reset

SpecCycler == InitCycler /\ [][NextCycler]_vars

\* ================================================================ claims
InCall(s) == s.pc \in {"fetch", "embed", "ins_meta", "ins_vec", "commit", "ret"}
Quiet(u) == \A c \in Callers : InCall(cs[c]) => cs[c].url # u
SameIds(v) == DOMAIN v.meta = DOMAIN v.fts /\ DOMAIN v.fts = DOMAIN v.vec
RowsOf(u) == {id \in DOMAIN meta : meta[id].source_id = u}

\* C1 (as claimed): in every committed state the metadata table, the keyword index
\* and the vector index hold the same set of chunk ids, also after a chunk write
\* that failed between its two inserts.
C1_JoinInvariant == SameIds([meta |-> meta, fts |-> fts, vec |-> vec])

\* C2 (as claimed): whatever the interleaving of the callers, a reader - on any
\* connection whose own thread is not inside save_embedding - finds every chunk
\* in all three structures or in none.
C2_ReadersSeeWholeChunks ==
    \A h \in Handles :
        cs[OwnerThread(h)].pc \notin {"ins_vec", "commit"} => SameIds(View(h))

\* C3 (as claimed): when embed_notion_page returns, the integer it returns is the
\* number of chunks the call added to the store.
C3_ReturnEqualsAdded ==
    \A c \in Callers : cs[c].pc = "ret" => ~cs[c].raised /\ cs[c].ret = cs[c].added

\* C4 (as claimed): a failure of generate_embeddings_batch inside embed_notion_page
\* reaches the caller as an error.
C4_EmbeddingFailureSurfaced ==
    \A c \in Callers : (cs[c].pc = "ret" /\ cs[c].exc = "EmbeddingError") => cs[c].raised

\* C4 (amended): a failure of generate_embeddings_batch inside embed_notion_page is
\* caught there: the call returns 0 without raising, and has written no chunk.
C4_EmbeddingFailureReturnsZero ==
    \A c \in Callers :
        (cs[c].pc = "ret" /\ cs[c].exc = "EmbeddingError")
            => ~cs[c].raised /\ cs[c].ret = 0 /\ cs[c].added = 0 /\ cs[c].rowid = 0
C4_Witness ==
    \E c \in Callers : cs[c].pc = "ret" /\ cs[c].exc = "EmbeddingError" /\ cs[c].page = "doc"

\* C5: when the page cannot be fetched, or its text is empty or blank,
\* embed_notion_page returns 0 without raising, in the very step of the fetch, and
\* that step leaves the tables, the open transactions and the lock as they were;
\* the call has executed no insert.
C5_NoTextNoChunks ==
    /\ [](\A c \in Callers :
            (InCall(cs[c]) /\ cs[c].page \in {"error", "blank"})
                => /\ cs[c].pc = "ret" /\ cs[c].ret = 0 /\ ~cs[c].raised
                   /\ cs[c].rowid = 0 /\ cs[c].added = 0)
    /\ [][\A c \in Callers :
            (cs[c].pc = "fetch" /\ cs'[c].page \in {"error", "blank"})
                => cs'[c].pc = "ret" /\ UNCHANGED storeVars]_vars
C5_Witness ==
    \E c \in Callers : /\ cs[c].pc = "ret" /\ cs[c].page = "blank"
                       /\ Len(cs[c].log) = 1 /\ cs[c].log[1].exc = "FetchError"
                       /\ DOMAIN meta # {}

RECURSIVE SumN(_)
SumN(log) == IF log = <<>> THEN 0 ELSE Head(log).n + SumN(Tail(log))

\* C6: embed_notion_pages calls embed_notion_page for the urls of its list in list
\* order, a url whose ingestion failed counts 0 and the loop goes on after it, and
\* the total returned is the sum of the counts returned for the urls.
C6_BatchSumsEveryDocument ==
    \A c \in Callers :
        cs[c].mode = "batch" =>
            LET s == cs[c]
            IN /\ s.pc # "batch_raised"
               /\ Len(s.log) <= Len(s.urls)
               /\ \A k \in 1..Len(s.log) :
                    s.log[k].url = s.urls[k] /\ (s.log[k].exc # "" => s.log[k].n = 0)
               /\ s.total = SumN(s.log)
               /\ s.pc = "done" => Len(s.log) = Len(s.urls)
               /\ s.pc # "done" => s.i = Len(s.log) + 1 /\ s.url = s.urls[s.i]
C6_Witness ==
    \E c \in Callers :
        /\ cs[c].pc = "done" /\ Len(cs[c].urls) = 2
        /\ cs[c].log[1].exc # "" /\ cs[c].log[2].n > 0 /\ cs[c].total = cs[c].log[2].n

ChunksOfPage == [u \in Urls |-> Len(chunk_document(DocOf(u), u))]
\* the row a connection reads under id: the committed one, else its own pending one
ReadRow(t, tx, id) == IF id \in DOMAIN t THEN t[id] ELSE tx[id]
KeptRows(t, tx, t2, tx2) ==
    \A id \in DOMAIN t \cup DOMAIN tx :
        id \in DOMAIN t2 \cup DOMAIN tx2 /\ ReadRow(t2, tx2, id) = ReadRow(t, tx, id)
\* a step that writes to no table and no transaction, or one that only appends
C7_AppendStep ==
    \/ UNCHANGED <<meta, fts, vec, pend>>
    \/ \A h \in Handles :
         LET ids == DOMAIN meta \cup DOMAIN pend[h].meta
             ids2 == DOMAIN meta' \cup DOMAIN pend'[h].meta
         IN /\ KeptRows(meta, pend[h].meta, meta', pend'[h].meta)
            /\ KeptRows(fts, pend[h].fts, fts', pend'[h].fts)
            /\ KeptRows(vec, pend[h].vec, vec', pend'[h].vec)
            /\ \A id \in ids2 \ ids : \A old \in ids : id > old
\* C7: no step changes or removes a row a connection could read before it (its
\* metadata row, keyword row and vector stay as they were), every new row gets an
\* id above all earlier ones, and once n ingestions of a page of k chunks have
\* completed, with no ingestion of it failed or in progress, n*k rows carry its
\* source_id.
C7_AppendOnly ==
    /\ [][C7_AppendStep]_vars
    /\ [](\A u \in Urls :
            (Quiet(u) /\ u \notin hist.part)
                => Cardinality(RowsOf(u)) = hist.ok[u] * ChunksOfPage[u])
C7_Witness ==
    /\ hist.ok[ListenerUrl] = 2 /\ hist.part = {} /\ Quiet(ListenerUrl)
    /\ Cardinality(RowsOf(ListenerUrl)) = 4

ReadBack(c) == get_metadata_by_ids(View(HandleOf(c)), {cs[c].ret})[cs[c].ret]
Pairs(m) == {<<e.k, e.v>> : e \in m}

\* C8 (as claimed): get_metadata_by_ids([id]) after save_embedding gives back the
\* content, source_id and metadata exactly as they were passed.
C8_RoundTripExact ==
    \A c \in Callers :
        cs[c].pc = "saved" =>
            /\ ReadBack(c).content = cs[c].args.content
            /\ ReadBack(c).source_id = cs[c].args.source_id
            /\ ReadBack(c).metadata = cs[c].args.metadata

\* C8 (amended): content, source_type and source_id come back exactly; metadata
\* comes back exactly when it is a mapping with string keys (empty or not); an
\* omitted metadata comes back as the empty mapping, and a key that is not a
\* string comes back as its string form, with its value.
C8_RoundTripJson ==
    \A c \in Callers :
        cs[c].pc = "saved" =>
            LET r == ReadBack(c)
                a == cs[c].args
            IN /\ r.content = a.content
               /\ r.source_type = a.source_type
               /\ r.source_id = a.source_id
               /\ (a.metadata.some /\ \A e \in a.metadata.map : e.kt = "str")
                    => r.metadata = a.metadata
               /\ ~a.metadata.some => r.metadata = EmptyMap
               /\ r.metadata.some
               /\ Pairs(r.metadata.map) = Pairs(a.metadata.map)
               /\ \A e \in r.metadata.map : e.kt = "str"
C8_Witness ==
    \E c \in Callers : cs[c].pc = "saved" /\ cs[c].args.metadata = NoMeta /\ cs[c].ret > 1

\* C9: when generate_embedding fails inside retrieve_context, the caller gets the
\* embedder's error: neither the sentinel text nor a result list.
C9_EmbedderFailurePropagates ==
    \A c \in Callers :
        (cs[c].pc = "retrieved" /\ ~rsl.in.embedder_ok)
            => /\ rsl.out.kind = "raised" /\ rsl.out.exc = "EmbeddingError"
               /\ ~rsl.out.text.sentinel /\ rsl.out.text.entries = <<>>
               /\ rsl.out.results = <<>>
C9_Witness ==
    \E c \in Callers :
        /\ cs[c].pc = "retrieved" /\ ~rsl.in.embedder_ok
        /\ \E id \in DOMAIN fts : Matches(fts[id], rsl.in.query)

NoLexical(v, query) == ~query.ok \/ \A id \in DOMAIN v.fts : ~Matches(v.fts[id], query)

\* C10: for a query FTS5 cannot parse, and for one no row matches, bm25_search
\* gives the empty mapping without raising, and hybrid_search returns the nearest
\* vectors - top_k of them, nearest first - each with lexical score 0.
C10_NoKeywordMatchStillRanks ==
    \A c \in Callers :
        (cs[c].pc = "retrieved" /\ rsl.in.embedder_ok
            /\ NoLexical(View(HandleOf(c)), rsl.in.query))
        => LET v == View(HandleOf(c))
               b == bm25_search(v, rsl.in.query, SearchLimit)
               res == rsl.out.results
               want == IF rsl.in.top_k < Cardinality(DOMAIN v.vec)
                       THEN rsl.in.top_k ELSE Cardinality(DOMAIN v.vec)
           IN /\ ~b.raised /\ DOMAIN b.map = {}
              /\ rsl.out.kind = "returned"
              /\ Len(res) = want
              /\ \A n \in 1..Len(res) : res[n].bm25_score = 0 /\ res[n].id \in DOMAIN v.vec
              /\ \A n \in 1..Len(res) : \A id \in DOMAIN v.vec :
                    rsl.in.dist[id] < rsl.in.dist[res[n].id]
                        => \E k \in 1..(n-1) : res[k].id = id
C10_Witness ==
    \E c \in Callers :
        /\ cs[c].pc = "retrieved" /\ rsl.in.embedder_ok /\ ~rsl.in.query.ok
        /\ Len(rsl.out.results) >= 2
        /\ rsl.out.results[1].semantic_score > rsl.out.results[2].semantic_score

\* what the two searches of the hybrid_search call in progress return, raw and normalized
LexRaw == bm25_search(Committed, call.in.query, SearchLimit).map
VecRaw == semantic_search(Committed, call.in.dist, SearchLimit)
LexNorm == normalize_bm25_scores(LexRaw)
VecNorm == normalize_distances(VecRaw)
Ranked == call.out.value.results
RankedIds == {Ranked[n].id : n \in 1..Len(Ranked)}
Least(a, b) == IF a < b THEN a ELSE b

\* C11: hybrid_search scores every id returned by the lexical search or by the
\* vector search - the result holds top_k of them, or all when there are fewer -
\* with the normalized score of each search that returned the id and exactly 0 for
\* the search that did not.
C11_RanksTheUnion ==
    CallDone("hybrid_search") =>
        LET union == DOMAIN LexRaw \cup DOMAIN VecRaw
        IN /\ ~call.out.value.raised
           /\ Len(Ranked) = Least(call.in.top_k, Cardinality(union))
           /\ Cardinality(RankedIds) = Len(Ranked)
           /\ RankedIds \subseteq union
           /\ \A n \in 1..Len(Ranked) :
                LET r == Ranked[n]
                IN /\ r.bm25_score = IF r.id \in DOMAIN LexRaw THEN LexNorm[r.id] ELSE 0
                   /\ r.semantic_score = IF r.id \in DOMAIN VecRaw THEN VecNorm[r.id] ELSE 0
C11_Witness ==
    /\ CallDone("hybrid_search")
    /\ \E n, m \in 1..Len(Ranked) :
         /\ Ranked[n].id \in DOMAIN LexRaw \ DOMAIN VecRaw /\ Ranked[n].bm25_score > 0
         /\ Ranked[m].id \in DOMAIN VecRaw \ DOMAIN LexRaw /\ Ranked[m].semantic_score > 0

\* the combined score the code computes for a candidate id under the weights given
Combined(keyword_weight, semantic_weight, id) ==
    keyword_weight * Get(LexNorm, id) + semantic_weight * Get(VecNorm, id)

\* C12: hybrid_search returns at most top_k entries - top_k of the candidates, or
\* all of them when there are fewer - each with combined score keyword_weight *
\* lexical_normalized + semantic_weight * vector_normalized, in non-increasing
\* order of that score, and no candidate left out scores strictly more than one
\* that is returned.
C12_TopKByCombinedScore ==
    CallDone("hybrid_search") =>
        LET union == DOMAIN LexRaw \cup DOMAIN VecRaw
            kw == call.in.keyword_weight
            sw == call.in.semantic_weight
        IN /\ Len(Ranked) <= call.in.top_k
           /\ Len(Ranked) = Least(call.in.top_k, Cardinality(union))
           /\ \A n \in 1..Len(Ranked) :
                Ranked[n].final_score = Combined(kw, sw, Ranked[n].id)
           /\ \A n, m \in 1..Len(Ranked) :
                n < m => Ranked[n].final_score >= Ranked[m].final_score
           /\ \A id \in union \ RankedIds : \A n \in 1..Len(Ranked) :
                Combined(kw, sw, id) <= Ranked[n].final_score
C12_Witness ==
    /\ CallDone("hybrid_search")
    /\ call.in.top_k = 1 /\ Len(Ranked) = 1
    /\ call.in.keyword_weight = DefaultWeight /\ call.in.semantic_weight = 2 * DefaultWeight
    /\ \E a, b \in (DOMAIN LexRaw \cup DOMAIN VecRaw) \ RankedIds :
         /\ Combined(DefaultWeight, 2 * DefaultWeight, a) < Ranked[1].final_score
         /\ Combined(DefaultWeight, 2 * DefaultWeight, b)
              < Combined(DefaultWeight, 2 * DefaultWeight, a)

\* C13 (as claimed): candidates of equal combined score are returned in id order.
C13_TiesInIdOrder ==
    CallDone("hybrid_search") =>
        \A n, m \in 1..Len(Ranked) :
            (n < m /\ Ranked[n].final_score = Ranked[m].final_score)
                => Ranked[n].id < Ranked[m].id

AllEqual(m) == \A a, b \in DOMAIN m : m[a] = m[b]
\* lower raw value, higher normalized score, the ends at 1.0 and 0.0
Inverted(raw, norm) ==
    /\ DOMAIN norm = DOMAIN raw
    /\ \A a \in DOMAIN raw : norm[a] \in 0..Scale
    /\ \A a \in DOMAIN raw : (\A b \in DOMAIN raw : raw[a] <= raw[b]) => norm[a] = Scale
    /\ \A a \in DOMAIN raw : (\A b \in DOMAIN raw : raw[a] >= raw[b]) => norm[a] = 0
    /\ \A a, b \in DOMAIN raw : raw[a] < raw[b] => norm[a] > norm[b]

\* C14: a non-empty batch whose raw scores are all equal - whatever the value,
\* whatever the size - is normalized to 1.0 for every key, by both normalizers.
C14_EqualScoresGiveOne ==
    CallDone("normalize") =>
        /\ (DOMAIN call.in.bm25_scores # {} /\ AllEqual(call.in.bm25_scores))
             => call.out.value.bm25 = [id \in DOMAIN call.in.bm25_scores |-> Scale]
        /\ (DOMAIN call.in.distances # {} /\ AllEqual(call.in.distances))
             => call.out.value.semantic = [id \in DOMAIN call.in.distances |-> Scale]
C14_Witness ==
    /\ CallDone("normalize")
    /\ Cardinality(DOMAIN call.in.bm25_scores) = 1
    /\ \A id \in DOMAIN call.in.bm25_scores : call.in.bm25_scores[id] = 0 - 3
    /\ Cardinality(DOMAIN call.in.distances) = MaxBatchIds
    /\ \A id \in DOMAIN call.in.distances : call.in.distances[id] = 2
    /\ \A id \in DOMAIN call.in.distances : call.out.value.semantic[id] = Scale

\* C15: for a batch whose raw scores are not all equal, both normalizers give
\* values in [0, 1], 1.0 to the lowest raw value (the most negative BM25 score, the
\* smallest distance), 0.0 to the highest, and a strictly higher value to a
\* strictly lower raw value.
C15_LowerRawIsBetter ==
    CallDone("normalize") =>
        /\ ~AllEqual(call.in.bm25_scores)
             => Inverted(call.in.bm25_scores, call.out.value.bm25)
        /\ ~AllEqual(call.in.distances)
             => Inverted(call.in.distances, call.out.value.semantic)
C15_Witness ==
    /\ CallDone("normalize")
    /\ \E a, b, c \in DOMAIN call.in.bm25_scores :
         /\ call.in.bm25_scores[a] < call.in.bm25_scores[b]
         /\ call.in.bm25_scores[b] < call.in.bm25_scores[c]
         /\ call.out.value.bm25[b] \in 1..(Scale - 1)
    /\ \E a, b, c \in DOMAIN call.in.distances :
         /\ call.in.distances[a] < call.in.distances[b]
         /\ call.in.distances[b] < call.in.distances[c]
         /\ call.out.value.semantic[b] \in 1..(Scale - 1)

\* the same call with another semantic_weight, every candidate being returned
RankedWith(semantic_weight) ==
    hybrid_search(Committed, call.in.query, call.in.dist, call.in.keyword_weight,
                  semantic_weight, call.in.top_k).results
AllRanked == CallDone("hybrid_search") /\ call.in.top_k = DefaultTopK
\* candidates A and B: at places a and b of one result, at places p and q of the other
SamePair(now, a, b, later, p, q) == now[a].id = later[p].id /\ now[b].id = later[q].id

\* C16 (as claimed): for candidates A, B with vector_normalized(A) >=
\* lexical_normalized(A) and vector_normalized(B) <= lexical_normalized(B), a larger
\* semantic_weight (keyword_weight fixed) never decreases score(A) - score(B).
C16_FusionMonotone ==
    AllRanked =>
        \A w \in Weights : w > call.in.semantic_weight =>
            LET now == Ranked
                later == RankedWith(w)
            IN \A a, b \in 1..Len(now) : \A p, q \in 1..Len(later) :
                (/\ SamePair(now, a, b, later, p, q)
                 /\ now[a].semantic_score >= now[a].bm25_score
                 /\ now[b].semantic_score <= now[b].bm25_score)
                => later[p].final_score - later[q].final_score
                     >= now[a].final_score - now[b].final_score

\* C16 (amended): for candidates A, B with vector_normalized(A) >=
\* vector_normalized(B), a larger semantic_weight (keyword_weight fixed) never
\* decreases score(A) - score(B), and A, when ranked before B, stays before B.
C16_FusionMonotoneInVectorScore ==
    AllRanked =>
        \A w \in Weights : w > call.in.semantic_weight =>
            LET now == Ranked
                later == RankedWith(w)
            IN /\ Len(later) = Len(now)
               /\ \A a \in 1..Len(now) : \E p \in 1..Len(later) : later[p].id = now[a].id
               /\ \A a, b \in 1..Len(now) : \A p, q \in 1..Len(later) :
                    (/\ SamePair(now, a, b, later, p, q)
                     /\ now[a].semantic_score >= now[b].semantic_score)
                    => /\ later[p].final_score - later[q].final_score
                            >= now[a].final_score - now[b].final_score
                       /\ a < b => p < q
C16_Witness ==
    /\ AllRanked
    /\ call.in.keyword_weight = DefaultWeight /\ call.in.semantic_weight = 0
    /\ LET now == Ranked
           later == RankedWith(2 * DefaultWeight)
       IN \E a, b \in 1..Len(now) : \E p, q \in 1..Len(later) :
            /\ SamePair(now, a, b, later, p, q)
            /\ now[a].semantic_score > now[b].semantic_score
            /\ now[a].bm25_score < now[b].bm25_score
            /\ a > b /\ p < q

\* the store as the caller's connection sees it holds no chunk at all
SeesNoChunks(c) ==
    LET v == View(HandleOf(c))
    IN DOMAIN v.meta = {} /\ DOMAIN v.fts = {} /\ DOMAIN v.vec = {}

\* C17: on a store holding no chunks, retrieve_context - once the query is
\* embedded - returns the sentinel text "No relevant context found." and the empty
\* list, for every query, well-formed or not, and every top_k.
C17_EmptyStoreGivesSentinel ==
    \A c \in Callers :
        (cs[c].pc = "retrieved" /\ rsl.in.embedder_ok /\ SeesNoChunks(c))
            => /\ rsl.out.kind = "returned"
               /\ rsl.out.text = [sentinel |-> TRUE, entries |-> <<>>]
               /\ rsl.out.results = <<>>
C17_Witness ==
    \E c \in Callers :
        /\ cs[c].pc = "retrieved" /\ rsl.in.embedder_ok /\ SeesNoChunks(c)
        /\ ~rsl.in.query.ok /\ rsl.in.top_k = DefaultTopK
        /\ rsl.out.text.sentinel

\* embed_notion_page(db, "doc1") is returning, without any failure, from the
\* ingestion of the Linda document into a store that was empty when it started
LindaIngested(c) ==
    /\ cs[c].pc = "ret" /\ cs[c].url = LindaUrl /\ cs[c].page = "doc" /\ cs[c].exc = ""
    /\ cs[c].added > 0
    /\ DOMAIN meta = 1..cs[c].added
StartsWithTitle(content) ==
    Len(content) >= 2 /\ SubSeq(content, 1, 2) = <<FromLine(LindaUrl), H1(<<"linda">>)>>

\* C18 (as claimed): ingesting the Linda document under "doc1" into an empty store
\* saves exactly 2 chunks, and the content of each starts with "[From: doc1]\n# Linda".
C18_TwoChunksSaved ==
    \A c \in Callers :
        LindaIngested(c)
            => /\ cs[c].ret = 2
               /\ Cardinality(DOMAIN meta) = 2
               /\ \A id \in DOMAIN meta : StartsWithTitle(meta[id].content)

\* the store holds the chunks of one complete ingestion of the Linda document and
\* nothing else, and retrieve_context(db, "freelance", top_k=1) has just run on it
LindaChunks == chunk_document(LindaDoc, LindaUrl)
IsAvailability(content) == \E i \in 1..Len(content) : content[i] = H2(<<"availability">>)
FreelanceAsked(c) ==
    /\ cs[c].pc = "retrieved"
    /\ hist.ok[LindaUrl] = 1 /\ hist.part = {}
    /\ DOMAIN View(HandleOf(c)).meta = 1..Len(LindaChunks)
    /\ rsl.in.query = [ok |-> TRUE, words |-> <<"freelance">>]
    /\ rsl.in.top_k = 1
    /\ rsl.in.embedder_ok
\* the Availability chunk is strictly farther from the query than some other chunk,
\* and no chunk is farther than it
AvailabilityFarthest ==
    LET a == CHOOSE id \in DOMAIN meta : IsAvailability(meta[id].content)
    IN /\ \A id \in DOMAIN rsl.in.dist : rsl.in.dist[id] <= rsl.in.dist[a]
       /\ \E id \in DOMAIN rsl.in.dist : rsl.in.dist[id] < rsl.in.dist[a]

\* C19 (as claimed): after the ingestion of the Linda document, the query
\* "freelance" with top_k = 1 and the default weights returns the Availability chunk
\* first, with a combined score above 0, whatever the vector distances.
C19_AvailabilityFirst ==
    \A c \in Callers :
        FreelanceAsked(c)
            => /\ rsl.out.kind = "returned"
               /\ Len(rsl.out.results) = 1
               /\ IsAvailability(rsl.out.results[1].content)
               /\ rsl.out.results[1].final_score > 0

\* C19 (amended): the query returns exactly one result, with a combined score above
\* 0; it is the Availability chunk unless that chunk is the farthest from the query
\* while another one is nearer: then the nearest chunk ties with it at 0.5 and the
\* chunk of lower id is returned instead.
C19_AvailabilityFirstUnlessFarthest ==
    \A c \in Callers :
        FreelanceAsked(c)
            => /\ rsl.out.kind = "returned"
               /\ Len(rsl.out.results) = 1
               /\ rsl.out.results[1].final_score > 0
               /\ IsAvailability(rsl.out.results[1].content) <=> ~AvailabilityFarthest
               /\ AvailabilityFarthest
                    => /\ rsl.out.results[1].final_score = DefaultWeight * Scale
                       /\ rsl.out.results[1].bm25_score = 0
C19_Witness ==
    \E c \in Callers :
        /\ FreelanceAsked(c)
        /\ IsAvailability(rsl.out.results[1].content)
        /\ rsl.out.results[1].semantic_score \in 1..(Scale - 1)
        /\ rsl.out.results[1].bm25_score = Scale

\* the document given to chunk_document, the ## lines in it, and the pieces the
\* claim names: the text before the first ## line, and the section of each ## line
Doc == call.in.content
Headers == {i \in 1..Len(Doc) : Doc[i].k = "h2"}
NthHeader(n) == CHOOSE i \in Headers : Cardinality({j \in Headers : j < i}) = n - 1
SectionEnd(i) == IF \E j \in Headers : j > i
                 THEN (CHOOSE j \in Headers : j > i /\ \A k \in Headers : k > i => j <= k) - 1
                 ELSE Len(Doc)
SectionOf(i) == strip(SubSeq(Doc, i, SectionEnd(i)))
Intro == strip(IF Headers = {} THEN Doc ELSE SubSeq(Doc, 1, NthHeader(1) - 1))
Sections ==
    (IF Intro = <<>> THEN <<>> ELSE <<Intro>>)
        \o [n \in 1..Cardinality(Headers) |-> SectionOf(NthHeader(n))]
TitleLine ==
    IF \E i \in 1..Len(Doc) : Doc[i].k = "h1"
    THEN Doc[CHOOSE i \in 1..Len(Doc) : Doc[i].k = "h1" /\ \A j \in 1..(i-1) : Doc[j].k # "h1"]
    ELSE H1(<<call.in.source_id>>)
Preamble == <<FromLine(call.in.source_id), TitleLine, Blank>>
Contains(content, line) == \E i \in 1..Len(content) : content[i] = line

\* C20: for every non-blank document chunk_document returns, in document order, one
\* chunk per ## section plus one for non-blank text before the first ## line - so a
\* document without ## line gives one chunk holding its whole text -, each chunk
\* being the preamble "[From: source_id]", "# doc_title", empty line (doc_title is
\* the source_id when the document has no # line) followed by the piece; the chunk
\* of a ## section holds its header line, and every chunk holds the title line.
C20_OneChunkPerSection ==
    (CallDone("chunk_document") /\ ~IsBlankText(Doc)) =>
        LET out == call.out.value
        IN /\ Len(out) = Cardinality(Headers) + (IF Intro = <<>> THEN 0 ELSE 1)
           /\ Len(out) = Len(Sections)
           /\ \A n \in 1..Len(out) :
                /\ out[n].content = Preamble \o Sections[n]
                /\ Contains(out[n].content, TitleLine)
           /\ \A n \in 1..Cardinality(Headers) :
                LET chunk == out[Len(out) - Cardinality(Headers) + n].content
                IN chunk[Len(Preamble) + 1] = Doc[NthHeader(n)]
           /\ Headers = {} => Len(out) = 1 /\ out[1].content = Preamble \o strip(Doc)
C20_Witness ==
    /\ CallDone("chunk_document")
    /\ Cardinality(Headers) = 2 /\ Intro # <<>> /\ Len(Intro) < NthHeader(1) - 1
    /\ \A i \in 1..Len(Doc) : Doc[i].k # "h1"
    /\ Len(call.out.value) = Cardinality(Headers) + 1
    /\ call.out.value[1].content = <<FromLine(LindaUrl), H1(<<LindaUrl>>), Blank>> \o Intro

\* the value the metadata of a chunk holds under a key, and the title the claim
\* expects for a chunk: the words of its ## line, else "Introduction"
HasKey(metadata, key) == \E e \in metadata.map : e.k = key
ValueOf(metadata, key) == (CHOOSE e \in metadata.map : e.k = key).v
ExpectedTitle(content) ==
    IF \E i \in 1..Len(content) : content[i].k = "h2"
    THEN content[CHOOSE i \in 1..Len(content) :
                   content[i].k = "h2" /\ \A j \in 1..(i-1) : content[j].k # "h2"].w
    ELSE <<"Introduction">>

\* C21 (as claimed): every chunk chunk_document returns, for every input - the
\* blank ones included -, has metadata holding source_id and section_title, the
\* latter being the text of the section's ## line, or "Introduction" without one.
C21_MetadataHasBoth ==
    CallDone("chunk_document") =>
        \A n \in 1..Len(call.out.value) :
            LET chunk == call.out.value[n]
            IN /\ HasKey(chunk.metadata, "source_id")
               /\ ValueOf(chunk.metadata, "source_id") = <<call.in.source_id>>
               /\ HasKey(chunk.metadata, "section_title")
               /\ ValueOf(chunk.metadata, "section_title") = ExpectedTitle(chunk.content)

\* the format_context_for_prompt call in progress: its arguments, the text returned,
\* and the characters that remain for the content of item k (`available`) once the
\* entries before it are written
Results == call.in.results
Text == call.out.value
Available(k) ==
    call.in.max_chars - SumEntries(SubSeq(Text.entries, 1, k - 1))
        - HeaderLen(k, Results[k].source_type) - Overhead

\* C22 (as claimed): format_context_for_prompt returns the sentinel for an empty
\* result list and, for every result list and every max_chars, a text that is not
\* empty - and, for a non-empty list, not the sentinel.
C22_NeverEmptyText ==
    CallDone("format_context_for_prompt") =>
        /\ Text.sentinel <=> Results = <<>>
        /\ TextLen(Text) > 0

\* C23 (as claimed): the entries are the first results, in order, numbered from 1;
\* an item is cut exactly when its content overflows what remains, and then ends
\* with "..."; an item that fits is rendered in full; the first item left out
\* overflows what remains, and fewer than 100 characters remain for it.
C23_TruncatedNotDropped ==
    (CallDone("format_context_for_prompt") /\ Results # <<>>) =>
        LET n == Len(Text.entries)
        IN /\ n <= Len(Results)
           /\ \A k \in 1..n :
                /\ Text.entries[k].rank = k
                /\ Text.entries[k].cut <=> Results[k].content > Available(k)
                /\ ~Text.entries[k].cut => Text.entries[k].content = Results[k].content
           /\ n < Len(Results)
                => /\ Results[n + 1].content > Available(n + 1)
                   /\ Available(n + 1) < MinAvailable

\* C24: a single result whose content is longer than max_chars, when max_chars
\* leaves more than 100 characters for it, is returned cut, ending in "...", in a
\* text of max_chars - 8 characters: at most max_chars plus the header's length.
C24_SingleLongItemIsCut ==
    (/\ CallDone("format_context_for_prompt")
     /\ Len(Results) = 1
     /\ Results[1].content > call.in.max_chars
     /\ call.in.max_chars - HeaderLen(1, Results[1].source_type) - Overhead > MinAvailable)
        => /\ Len(Text.entries) = 1
           /\ Text.entries[1].cut
           /\ Text.entries[1].content < Results[1].content
           /\ TextLen(Text) <= call.in.max_chars + Text.entries[1].header
           /\ TextLen(Text) = call.in.max_chars - Overhead + 2
C24_Witness ==
    /\ CallDone("format_context_for_prompt")
    /\ Len(Results) = 1 /\ Results[1].content > call.in.max_chars
    /\ call.in.max_chars = DefaultMaxChars
    /\ Len(Text.entries) = 1 /\ Text.entries[1].cut

\* C30 (as claimed): for a non-empty result list and every max_chars, the text
\* returned has at most max_chars characters, headers, newlines and separators
\* included.
C30_TextWithinBudget ==
    (CallDone("format_context_for_prompt") /\ Results # <<>>) =>
        TextLen(Text) <= call.in.max_chars

\* the first check_for_changes call of the listener has returned to thread t
FirstCheckDone(t) == lsn.built /\ lsn.th[t].pc = "returned" /\ lsn.th[t].first

C26_CheckStep ==
    \A t \in CheckThreads :
        (lsn.built /\ lsn.th[t].pc # "returned" /\ lsn'.th[t].pc = "returned") =>
            LET ret == lsn'.th[t].ret
                current_hash == lsn.th[t].hash
                kept == /\ lsn'.last_content_hash = lsn.last_content_hash
                        /\ lsn'.change_count = lsn.change_count
            IN IF lsn'.th[t].failed THEN ~ret /\ kept /\ lsn'.file = lsn.file
               ELSE IF lsn.last_content_hash = NoHash THEN ~ret
               ELSE /\ ret <=> current_hash # lsn.last_content_hash
                    /\ ret => /\ lsn'.last_content_hash = current_hash
                              /\ lsn'.file = current_hash
                              /\ lsn'.change_count = lsn.change_count + 1
                    /\ ~ret => kept
NoRepeat(seq) == \A i, j \in 1..Len(seq) : i # j => seq[i] # seq[j]

\* C26 (as claimed): once a baseline is recorded, a check returns True exactly when
\* the page fetched hashes differently from the last recorded hash, then records
\* the new hash in memory and in the state file and adds one to change_count; a
\* check whose fetch fails returns False and changes nothing; and no content
\* change is reported twice.
C26_ChangeReportedOnce ==
    /\ [][C26_CheckStep]_vars
    /\ [](lsn.built => NoRepeat(lsn.reported))

\* C27 (as claimed): whenever handle_page_update runs for a change, in the
\* listener thread as in the thread that opened the store handle, the page's
\* chunks are all written to the store by the time embed_notion_page returns and
\* the post is generated (the page was fetched and its text embedded).
C27_PageReembeddedBeforePost ==
    \A c \in {"main", "listener"} :
        (/\ cs[c].mode = "page" /\ cs[c].pc = "ret" /\ cs[c].page = "doc"
         /\ cs[c].exc \notin {"EmbeddingError", "OperationalError"})
            => cs[c].added = Len(cs[c].chunks)

InRange(index) == index \in 0..(Len(Topics) - 1)
TopicSet == {Topics[k] : k \in 1..Len(Topics)}

\* the calls of get_next_topic made one after the other follow the list, and
\* Len(Topics) of them return every topic once and restore the index
RunCycles(c) ==
    /\ \A k \in 1..Len(c.run) : c.run[k].topic = Topics[c.run[k].before + 1]
    /\ \A k \in 1..(Len(c.run) - 1) :
         c.run[k + 1].before = (c.run[k].before + 1) % Len(Topics)
    /\ Len(c.run) = Len(Topics) =>
         /\ {c.run[k].topic : k \in 1..Len(c.run)} = TopicSet
         /\ \A j, k \in 1..Len(c.run) : j # k => c.run[j].topic # c.run[k].topic
         /\ c.current_index = c.run[1].before

C28_CyclerStep ==
    /\ cyc'.op = "get_next_topic" =>
         /\ cyc'.ret = Topics[cyc.current_index + 1]
         /\ cyc'.current_index = (cyc.current_index + 1) % Len(Topics)
    /\ cyc'.op = "get_current_topic" =>
         /\ cyc'.current_index = cyc.current_index
         /\ cyc'.file = cyc.file
         /\ cyc'.ret = Topics[cyc.current_index + 1]
    /\ cyc'.op = "reset" => cyc'.current_index = 0
    /\ (cyc'.op = "init" /\ cyc.saved # <<>>) => cyc'.current_index = cyc.saved[1]

\* C28: the index of a TopicCycler is always a position of the list, whatever
\* integer the state file held; successive get_next_topic calls return the
\* topics in list order, cyclically; get_current_topic leaves the index alone;
\* reset sets it to 0; a new TopicCycler on the same state file starts at the
\* index that the last get_next_topic or reset persisted.
C28_IndexInRangeAndCycles ==
    /\ [](cyc.built => InRange(cyc.current_index) /\ RunCycles(cyc))
    /\ [][UNCHANGED cyc \/ C28_CyclerStep]_vars

\* Len(Topics) calls of get_next_topic in a row, started in the middle of the
\* list, went round it, and the last one persisted the index
C28_Witness ==
    /\ cyc.built /\ cyc.op = "get_next_topic"
    /\ Len(cyc.run) = Len(Topics) /\ cyc.run[1].before = 3
    /\ cyc.current_index = 3 /\ cyc.saved = <<3>> /\ cyc.file = IndexFile(3)

\* the rows of the store that match the query of the call
Hits == {id \in DOMAIN fts : Matches(fts[id], call.in.query)}
Window == call.out.value.map
Overflowing == /\ CallDone("bm25_search") /\ call.in.query.ok
               /\ Cardinality(Hits) > call.in.limit

\* C29 (as claimed): when more rows match than the window holds, bm25_search
\* returns the limit best-scoring matches: no match left out of the mapping has
\* a strictly lower raw BM25 score than a match that is in it.
C29_WindowHoldsBestMatches ==
    Overflowing =>
        /\ Cardinality(DOMAIN Window) = call.in.limit
        /\ \A out \in Hits \ DOMAIN Window, kept \in DOMAIN Window :
             ~(Bm25(fts[out], call.in.query) < Window[kept])

====
